---- MODULE Spec2Model ----
(***************************************************************************)
(* Repair Atlas web API: the relational store (User, Subscription, Item,   *)
(* Defect, FixPath), the route handlers that read and write it, the        *)
(* payment webhook handlers, the in-memory rate limiter and the            *)
(* marketplace best-deal reduction.                                        *)
(*                                                                         *)
(* Every route handler is one action: it takes a request while no         *)
(* response is outstanding and leaves the request's echo and the response  *)
(* in the variable resp; Respond hands the response to the client.         *)
(***************************************************************************)
EXTENDS Integers, Sequences, FiniteSets, Bags, TLC

(* ------------------------------ bounds --------------------------------- *)
MaxItems == 2
MaxDefects == 2
MaxFixPaths == 2
MaxPhotos == 1
MaxQuotes == 3
MaxOver == 2
MaxOther == 1
MaxLibraries == 1
MaxInflight == 2
MaxCodes == 1
TickSec == 300

(* ------------------------------ domains -------------------------------- *)
Users == {"u1", "u2"}
NoUser == "none"
Callers == Users \cup {NoUser}
Roles == {"USER", "PRO", "ADMIN"}
NoRole == "absent"
NoSub == "NONE"
NoLive == "nolive"
SubStatuses == {"ACTIVE", "TRIALING", "PAST_DUE", "CANCELED"}
StripeStatuses == {"active", "trialing", "past_due", "canceled", "incomplete"}
ItemIds == 1 .. MaxItems
DefectIds == 1 .. MaxDefects
FixPathIds == 1 .. MaxFixPaths
NoId == 0
Null == "null"

VARIABLES
  users,       \* User table: clerkId -> role (NoRole: no User row)
  subs,        \* Subscription table: clerkUserId / stripeCustomerId -> status
  stripeLive,  \* processor side: customer -> the metadata.clerkUserId of its
               \* live subscription (NoUser: no such metadata), or NoLive
  items,       \* Item table: id -> record
  defects,     \* Defect table: id -> record
  fixPaths,    \* FixPath table: id -> record
  resp,        \* the last request handled and the response it was given
  limiter,     \* RateLimiterMemory storage: key -> [consumed, ttl]
  tier,        \* the rate-limit tier the requests go through
  quotes,      \* vendor quotes handed to findBestDeal
  deal,        \* the result of findBestDeal
  toolLibrary, \* ToolLibrary table: the set of library rows
  metadata,    \* User.metadata: clerkId -> the PIN and 2FA fields
  inflight,    \* PIN / 2FA requests that have read their User row and have
               \* not yet written: a bag of [op, caller, pin, code, user]
  verified     \* the 2FA codes issued so far, in order: for each, how many
               \* verify requests succeeded with it (counted up to 2)

vars == <<users, subs, stripeLive, items, defects, fixPaths, resp,
          limiter, tier, quotes, deal, toolLibrary, metadata, inflight,
          verified>>

storeVars == <<users, subs, stripeLive, items, defects, fixPaths>>
auxVars == <<toolLibrary, metadata, inflight, verified>>
sideVars == <<limiter, tier, quotes, deal, auxVars>>

(* The response record.  limited, valid and dbFail echo the request's     *)
(* inputs (rate limiter verdict, schema validity, subscription lookup      *)
(* failure); the other fields are what the handler answered: item is the   *)
(* Item a 200 of an identify call describes, results the Items a search    *)
(* lists, take the number of rows the search asked the store for, args     *)
(* further parameters of the request, order the FixPath ids in the order   *)
(* of the recommendations list, calls the calls to external services in    *)
(* the order the handler made them.                                        *)
NoResp ==
  [op |-> "none", caller |-> NoUser, status |-> 0, target |-> NoId,
   kind |-> "", ids |-> {}, upgradeUrl |-> FALSE, active |-> FALSE,
   granted |-> FALSE, uploaded |-> 0, limited |-> FALSE, valid |-> TRUE,
   dbFail |-> FALSE, key |-> "", headers |-> {}, remaining |-> -1,
   item |-> Null, results |-> {}, take |-> 0, args |-> <<>>,
   order |-> <<>>, calls |-> <<>>]

\* no response is outstanding
Idle == resp = NoResp

(* ------------------- lib/rate-limit.ts: the headers -------------------- *)
\* an absent (undefined) field of a rateLimit result
None == -1

RateLimitHeaderNames ==
  {"X-RateLimit-Limit", "X-RateLimit-Remaining", "X-RateLimit-Reset"}

rateLimitHeaders(result) ==
  IF result.limit = None \/ result.limit = 0 THEN {}
  ELSE RateLimitHeaderNames

\* what rateLimit returns when limiter.consume rejects the request
\* ({success: false, error: 'Rate limiting error'})
limitExceeded ==
  [success |-> FALSE, limit |-> None, remaining |-> None, reset |-> None]

\* a route's 429: { status: 429, headers: rateLimitHeaders(rateLimitResult) }
TooMany(r) == [r EXCEPT !.headers = rateLimitHeaders(limitExceeded)]

(* ------------------------- lib/auth.ts --------------------------------- *)
\* getCurrentUser: the User row of the session's clerkId, or null
getCurrentUser(c) == IF c \in Users /\ users[c] # NoRole THEN c ELSE NoUser

hasRole(c, role) ==
  LET user == getCurrentUser(c) IN
  IF user = NoUser THEN FALSE
  ELSE IF role = "ADMIN" THEN users[user] = "ADMIN"
  ELSE IF role = "PRO" THEN users[user] = "PRO" \/ users[user] = "ADMIN"
  ELSE TRUE

(* ------------------------- lib/stripe.ts ------------------------------- *)
\* the status test that forgets TRIALING
getUserSubscription_mut(u, fails) ==
  IF fails THEN FALSE
  ELSE IF subs[u] = NoSub THEN FALSE
  ELSE subs[u] = "ACTIVE"

\* getUserSubscription(...).active; fails == the store lookup throws
getUserSubscription(u, fails) ==
  IF fails THEN FALSE
  ELSE IF subs[u] = NoSub THEN FALSE
  ELSE subs[u] = "ACTIVE" \/ subs[u] = "TRIALING"

\* the gate that trusts the denormalized role
checkSubscriptionAccess_role(u, fails) ==
  users[u] = "PRO" \/ users[u] = "ADMIN"

\* the gate that lets a caller through when the lookup fails
checkSubscriptionAccess_mut(u, fails) == fails \/ getUserSubscription(u, fails)

checkSubscriptionAccess(u, fails) == getUserSubscription(u, fails)

(* ------------------------- store helpers ------------------------------- *)
NextId(table) == Cardinality(DOMAIN table) + 1

FixPathsOf(d) == {f \in DOMAIN fixPaths : fixPaths[f].defectId = d}

\* the requests in flight of one handler
Pending(op) == {r \in BagToSet(inflight) : r.op = op}

\* An Item row.  confidence is in hundredths (50 is 0.5); photoUrls is the
\* number of stored photo URLs; createdAt is the row's place in creation
\* order, which is its id.
ItemRow(userId, category, brand, model, modelNumber, photoUrls, confidence) ==
  [userId |-> userId, category |-> category, brand |-> brand,
   model |-> model, modelNumber |-> modelNumber, photoUrls |-> photoUrls,
   confidence |-> confidence]

\* the Item fields both identify routes and the search route put into
\* their JSON
ItemJson(id, row) ==
  [id |-> id, category |-> row.category, brand |-> row.brand,
   model |-> row.model, modelNumber |-> row.modelNumber,
   confidence |-> row.confidence, photoUrls |-> row.photoUrls,
   createdAt |-> id]

\* category || 'electronics'
orElse(value, default) == IF value = "" THEN default ELSE value

TypeOK ==
  /\ users \in [Users -> Roles \cup {NoRole}]
  /\ subs \in [Users -> SubStatuses \cup {NoSub}]
  /\ stripeLive \in [Users -> Callers \cup {NoLive}]
  /\ DOMAIN items \subseteq ItemIds
  /\ DOMAIN defects \subseteq DefectIds
  /\ DOMAIN fixPaths \subseteq FixPathIds
  /\ resp.status \in {0, 200, 400, 401, 403, 404, 429, 500}
  /\ quotes \in Seq([price : Nat, shipping : Nat])
  /\ deal.savings \in Nat
  /\ DOMAIN metadata = Users
  /\ IsABag(inflight) /\ BagCardinality(inflight) <= MaxInflight
  /\ Len(verified) <= MaxCodes

(* ------------------------------ Init ----------------------------------- *)
NoDeal == [vendor |-> 0, totalCost |-> 0, savings |-> 0]

\* no twoFactorCode (codes are numbers of six digits)
NoCode == 0

\* a User row's metadata before any PIN or 2FA request
NoMetadata ==
  [pinHash |-> Null, pinEnabled |-> FALSE, twoFactorCode |-> NoCode,
   twoFactorExpiresAt |-> Null, twoFactorEnabled |-> FALSE]

InitSecurity ==
  /\ metadata = [u \in Users |-> NoMetadata]
  /\ inflight = EmptyBag
  /\ verified = <<>>

InitSide ==
  /\ limiter = <<>>
  /\ tier = [name |-> "none", hot |-> ""]
  /\ quotes = <<>>
  /\ deal = NoDeal
  /\ toolLibrary = {}
  /\ InitSecurity

InitTables ==
  /\ items = <<>>
  /\ defects = <<>>
  /\ fixPaths = <<>>
  /\ resp = NoResp

\* A user is either a free account that never subscribed, a subscriber
\* (subscription-created handled) or a former subscriber
\* (subscription-deleted handled).
Init ==
  /\ subs \in [Users -> {NoSub, "ACTIVE", "CANCELED"}]
  /\ users = [u \in Users |-> IF subs[u] = "ACTIVE" THEN "PRO" ELSE "USER"]
  /\ stripeLive = [u \in Users |-> IF subs[u] = "ACTIVE" THEN u ELSE NoLive]
  /\ InitTables
  /\ InitSide

\* Users are created with role USER and without a Subscription; an ADMIN is
\* an account whose role an operator has set in the store (no route
\* assigns it).
InitBilling ==
  /\ users \in {[u \in Users |-> "USER"],
                [u \in Users |-> IF u = "u2" THEN "ADMIN" ELSE "USER"]}
  /\ subs = [u \in Users |-> NoSub]
  /\ stripeLive = [u \in Users |-> NoLive]
  /\ InitTables
  /\ InitSide

(* ------------------- POST /item/identify ------------------------------- *)
ItemIdentify(c, hasImage, storageOk, category) ==
  /\ Idle
  /\ LET row == ItemRow(c, orElse(category, "electronics"), Null, Null, Null,
                        1, 50)
         R(s) == [NoResp EXCEPT !.op = "itemIdentify", !.caller = c,
                                !.status = s, !.valid = hasImage] IN
     IF getCurrentUser(c) = NoUser THEN
       /\ resp' = R(401)
       /\ UNCHANGED items
     ELSE IF ~hasImage THEN
       /\ resp' = R(400)
       /\ UNCHANGED items
     ELSE IF ~storageOk THEN
       /\ resp' = R(500)
       /\ UNCHANGED items
     ELSE
       /\ Cardinality(DOMAIN items) < MaxItems
       /\ items' = (NextId(items) :> row) @@ items
       /\ resp' = [R(200) EXCEPT !.target = NextId(items), !.uploaded = 1,
                                 !.item = ItemJson(NextId(items), row)]
  /\ UNCHANGED <<users, subs, stripeLive, defects, fixPaths>>
  /\ UNCHANGED sideVars

(* ------------------- POST /defect/report ------------------------------- *)
\* symptoms: "ok" the body satisfies DefectReportSchema, "schema" the
\* symptoms are well-formed JSON but the body violates the schema, "syntax"
\* the symptoms field is text that JSON.parse rejects.
SymptomKinds == {"ok", "schema", "syntax"}

\* the ownership check without the owner comparison
itemNotOwned_mut(c, itemId) == itemId \notin DOMAIN items

\* !item || item.userId !== user.id
itemNotOwned(c, itemId) ==
  itemId \notin DOMAIN items \/ items[itemId].userId # c

DefectReport(c, lim, itemId, symptoms, photos, storageOk) ==
  /\ Idle
  /\ LET valid == symptoms = "ok"
         E(s) == [NoResp EXCEPT !.op = "report", !.caller = c, !.status = s,
                                !.limited = lim]
         R(s) == [E(s) EXCEPT !.target = itemId, !.valid = valid] IN
     IF lim THEN
       /\ resp' = TooMany(E(429))
       /\ UNCHANGED defects
     ELSE IF getCurrentUser(c) = NoUser THEN
       /\ resp' = E(401)
       /\ UNCHANGED defects
     ELSE IF symptoms = "syntax" THEN
       \* JSON.parse throws a SyntaxError, which is not a ZodError
       /\ resp' = R(500)
       /\ UNCHANGED defects
     ELSE IF ~valid THEN
       /\ resp' = R(400)
       /\ UNCHANGED defects
     ELSE IF itemNotOwned(c, itemId) THEN
       /\ resp' = R(404)
       /\ UNCHANGED defects
     ELSE IF photos > 0 /\ ~storageOk THEN
       /\ resp' = R(500)
       /\ UNCHANGED defects
     ELSE
       /\ Cardinality(DOMAIN defects) < MaxDefects
       /\ defects' = (NextId(defects) :> [itemId |-> itemId, userId |-> c])
                       @@ defects
       /\ resp' = [R(200) EXCEPT !.uploaded = photos]
  /\ UNCHANGED <<users, subs, stripeLive, items, fixPaths>>
  /\ UNCHANGED sideVars

(* ------------------- POST /fixpath/recommend --------------------------- *)
\* The AI_GENERATED placeholder guide the handler persists.
aiFixPath(c, defectId) ==
  [defectId |-> defectId, userId |-> c, sourceType |-> "AI_GENERATED",
   provenanceScore |-> 7]

\* the lookup that never finds a cached guide
hasExisting_mut(defectId) == FALSE

\* existingFixPaths.length > 0: the cached guides are returned
hasExisting(defectId) == FixPathsOf(defectId) # {}

\* The handler as a function of the store and the request: the response
\* and the FixPath table it leaves.  defectId = NoId models a body without
\* defectId.
recommend(c, lim, defectId, dbFail) ==
  LET E(s) == [NoResp EXCEPT !.op = "recommend", !.caller = c, !.status = s,
                             !.limited = lim]
      R(s) == [E(s) EXCEPT !.target = defectId, !.dbFail = dbFail]
      Same(r) == [resp |-> r, fixPaths |-> fixPaths]
  IN
  IF lim THEN Same(TooMany(E(429)))
  ELSE IF getCurrentUser(c) = NoUser THEN Same(E(401))
  ELSE IF defectId = NoId THEN Same([R(400) EXCEPT !.valid = FALSE])
  ELSE IF defectId \notin DOMAIN defects \/ defects[defectId].userId # c
    THEN Same(R(404))
  ELSE IF hasExisting(defectId)
    THEN Same([R(200) EXCEPT !.ids = FixPathsOf(defectId)])
  ELSE IF ~checkSubscriptionAccess(c, dbFail)
    THEN Same([R(403) EXCEPT !.upgradeUrl = TRUE])
  ELSE [resp |-> [R(200) EXCEPT !.ids = {NextId(fixPaths)}],
        fixPaths |-> (NextId(fixPaths) :> aiFixPath(c, defectId)) @@ fixPaths]

\* findMany ... orderBy: { provenanceScore: 'desc' }: the orders in which
\* the store may return the rows ids of table.  Rows of equal score come
\* in any order.
findManyOrders(ids, table) ==
  {o \in [1..Cardinality(ids) -> ids] :
     /\ \A i, j \in DOMAIN o : i # j => o[i] # o[j]
     /\ \A i, j \in DOMAIN o :
          i < j => table[o[i]].provenanceScore >= table[o[j]].provenanceScore}

\* The lookup and the create with no other request in between.
Recommend(c, lim, defectId, dbFail) ==
  LET out == recommend(c, lim, defectId, dbFail) IN
  /\ Idle
  /\ out.fixPaths # fixPaths => Cardinality(DOMAIN fixPaths) < MaxFixPaths
  /\ \E o \in findManyOrders(out.resp.ids, out.fixPaths) :
       resp' = [out.resp EXCEPT !.order = o]
  /\ fixPaths' = out.fixPaths
  /\ UNCHANGED <<users, subs, stripeLive, items, defects>>
  /\ UNCHANGED sideVars

\* The handler up to db.fixPath.create.  The lookup (findMany) and the
\* create are two store operations; a request that is about to create
\* waits in inflight.
RecommendLookup(c, lim, defectId, dbFail) ==
  LET out == recommend(c, lim, defectId, dbFail) IN
  /\ Idle
  /\ IF out.fixPaths # fixPaths
     THEN /\ BagCardinality(inflight) < MaxInflight
          /\ inflight' = inflight (+)
               SetToBag({[op |-> "recommend", caller |-> c,
                          defectId |-> defectId, dbFail |-> dbFail]})
          /\ UNCHANGED resp
     ELSE /\ \E o \in findManyOrders(out.resp.ids, fixPaths) :
               resp' = [out.resp EXCEPT !.order = o]
          /\ UNCHANGED inflight
  /\ UNCHANGED storeVars
  /\ UNCHANGED <<limiter, tier, quotes, deal, toolLibrary, metadata, verified>>

\* db.fixPath.create and the answer
RecommendCreate(r) ==
  LET id == NextId(fixPaths) IN
  /\ Idle
  /\ r \in Pending("recommend")
  /\ Cardinality(DOMAIN fixPaths) < MaxFixPaths
  /\ fixPaths' = (id :> aiFixPath(r.caller, r.defectId)) @@ fixPaths
  /\ inflight' = inflight (-) SetToBag({r})
  /\ resp' = [NoResp EXCEPT !.op = "recommend", !.caller = r.caller,
                            !.status = 200, !.target = r.defectId,
                            !.dbFail = r.dbFail, !.ids = {id},
                            !.order = <<id>>]
  /\ UNCHANGED <<users, subs, stripeLive, items, defects>>
  /\ UNCHANGED <<limiter, tier, quotes, deal, toolLibrary, metadata, verified>>

(* ------------- GET /fixpath/{id} and GET /repair/guide/{id} ------------ *)
\* the access check that lets every authenticated caller through
notOwner_mut(c, id) == FALSE

\* fixPath.defect.userId !== user.id
notOwner(c, id) == defects[fixPaths[id].defectId].userId # c

GetFixPath(c, lim, id) ==
  LET E(s) == [NoResp EXCEPT !.op = "getFixPath", !.caller = c, !.status = s,
                             !.limited = lim]
      R(s) == [E(s) EXCEPT !.target = id] IN
  /\ Idle
  /\ resp' = IF lim THEN TooMany(E(429))
             ELSE IF getCurrentUser(c) = NoUser THEN E(401)
             ELSE IF id \notin DOMAIN fixPaths THEN R(404)
             ELSE IF notOwner(c, id) THEN R(403)
             ELSE [R(200) EXCEPT !.ids = {id}]
  /\ UNCHANGED storeVars
  /\ UNCHANGED sideVars

GetRepairGuide(c, lim, id) ==
  LET E(s) == [NoResp EXCEPT !.op = "getGuide", !.caller = c, !.status = s,
                             !.limited = lim]
      R(s) == [E(s) EXCEPT !.target = id] IN
  /\ Idle
  /\ resp' = IF lim THEN TooMany(E(429))
             ELSE IF getCurrentUser(c) = NoUser THEN E(401)
             ELSE IF id \notin DOMAIN fixPaths THEN R(404)
             ELSE IF defects[fixPaths[id].defectId].userId # c THEN R(403)
             ELSE [R(200) EXCEPT !.ids = {id}]
  /\ UNCHANGED storeVars
  /\ UNCHANGED sideVars

(* ------------------- GET /subscription/status -------------------------- *)
SubscriptionStatus(c, lim, dbFail) ==
  LET R(s) == [NoResp EXCEPT !.op = "subStatus", !.caller = c, !.status = s,
                             !.limited = lim, !.dbFail = dbFail] IN
  /\ Idle
  /\ resp' = IF lim THEN TooMany(R(429))
             ELSE IF getCurrentUser(c) = NoUser THEN R(401)
             ELSE [R(200) EXCEPT !.active = getUserSubscription(c, dbFail)]
  /\ UNCHANGED storeVars
  /\ UNCHANGED sideVars

(* ------------------- an entitlement check by role ---------------------- *)
CheckRole(c, role) ==
  /\ Idle
  /\ resp' = [NoResp EXCEPT !.op = "hasRole", !.caller = c, !.kind = role,
                            !.granted = hasRole(c, role)]
  /\ UNCHANGED storeVars
  /\ UNCHANGED sideVars

(* ------------------- POST /webhooks/stripe ----------------------------- *)
\* status stored by handleSubscriptionCreated
createdStatus(s) == IF s = "active" THEN "ACTIVE" ELSE "TRIALING"

\* status stored by handleSubscriptionUpdated
updatedStatus(s) ==
  IF s = "active" THEN "ACTIVE"
  ELSE IF s = "past_due" THEN "PAST_DUE" ELSE "CANCELED"

\* db.subscription.create fails on the unique clerkUserId / stripeCustomerId
createConflicts(sb, cust) == sb[cust] # NoSub

\* The webhook's answer: meta is the clerkUserId of the event's metadata
\* (NoUser when absent), cust the customer the event is about.
WebhookResp(kind, cust, meta, s) ==
  [NoResp EXCEPT !.op = "stripe", !.kind = kind, !.caller = meta,
                 !.target = IF cust = "u1" THEN 1 ELSE 2, !.status = s]

\* the response leaves the handler (return NextResponse.json(...))
Respond ==
  /\ ~Idle
  /\ resp' = NoResp
  /\ UNCHANGED storeVars
  /\ UNCHANGED sideVars

\* The three handlers as functions of the User and Subscription tables
\* (us, sb) and the event: the tables they leave, and whether they return
\* (ok) or throw, which the route answers with 400.
handleSubscriptionCreated(us, sb, cust, meta, status) ==
  IF meta = NoUser THEN [users |-> us, subs |-> sb, ok |-> TRUE]
  ELSE IF createConflicts(sb, cust)
    THEN [users |-> us, subs |-> sb, ok |-> FALSE]
  ELSE IF us[meta] = NoRole THEN
    \* the Subscription is stored, db.user.update finds no row and throws
    [users |-> us, subs |-> [sb EXCEPT ![cust] = createdStatus(status)],
     ok |-> FALSE]
  ELSE [users |-> [us EXCEPT ![meta] = "PRO"],
        subs |-> [sb EXCEPT ![cust] = createdStatus(status)], ok |-> TRUE]

\* a handler that moves a subscription one step down on every event that
\* is not active
handleSubscriptionUpdated_mut(us, sb, cust, status) ==
  IF sb[cust] = NoSub THEN [users |-> us, subs |-> sb, ok |-> FALSE]
  ELSE [users |-> us,
        subs |-> [sb EXCEPT ![cust] =
                    IF status = "active" THEN "ACTIVE"
                    ELSE IF @ \in {"ACTIVE", "TRIALING"} THEN "PAST_DUE"
                    ELSE "CANCELED"],
        ok |-> TRUE]

handleSubscriptionUpdated(us, sb, cust, status) ==
  IF sb[cust] = NoSub THEN [users |-> us, subs |-> sb, ok |-> FALSE]
  ELSE [users |-> us, subs |-> [sb EXCEPT ![cust] = updatedStatus(status)],
        ok |-> TRUE]

handleSubscriptionDeleted(us, sb, cust, meta) ==
  IF sb[cust] = NoSub THEN [users |-> us, subs |-> sb, ok |-> FALSE]
  ELSE IF meta # NoUser /\ us[meta] = NoRole THEN
    [users |-> us, subs |-> [sb EXCEPT ![cust] = "CANCELED"], ok |-> FALSE]
  ELSE [users |-> IF meta # NoUser THEN [us EXCEPT ![meta] = "USER"] ELSE us,
        subs |-> [sb EXCEPT ![cust] = "CANCELED"], ok |-> TRUE]

\* customer.subscription.created: the processor opens a subscription for a
\* customer that holds none; hasMeta: the checkout put the clerkUserId into
\* the subscription's metadata.
StripeCreated(cust, hasMeta, status) ==
  LET meta == IF hasMeta THEN cust ELSE NoUser
      out == handleSubscriptionCreated(users, subs, cust, meta, status)
  IN
  /\ Idle
  /\ stripeLive[cust] = NoLive
  /\ stripeLive' = [stripeLive EXCEPT ![cust] = meta]
  /\ users' = out.users
  /\ subs' = out.subs
  /\ resp' = WebhookResp("created", cust, meta, IF out.ok THEN 200 ELSE 400)
  /\ UNCHANGED <<items, defects, fixPaths>>
  /\ UNCHANGED sideVars

\* customer.subscription.updated, for a customer's live subscription
StripeUpdated(cust, status) ==
  LET meta == stripeLive[cust] IN
  /\ Idle
  /\ stripeLive[cust] # NoLive
  /\ LET out == handleSubscriptionUpdated(users, subs, cust, status) IN
       /\ users' = out.users
       /\ subs' = out.subs
       /\ resp' = WebhookResp("updated", cust, meta,
                              IF out.ok THEN 200 ELSE 400)
  /\ UNCHANGED <<stripeLive, items, defects, fixPaths>>
  /\ UNCHANGED sideVars

\* customer.subscription.deleted, for a customer's live subscription
StripeDeleted(cust) ==
  LET meta == stripeLive[cust] IN
  /\ Idle
  /\ stripeLive[cust] # NoLive
  /\ stripeLive' = [stripeLive EXCEPT ![cust] = NoLive]
  /\ LET out == handleSubscriptionDeleted(users, subs, cust, meta) IN
       /\ users' = out.users
       /\ subs' = out.subs
       /\ resp' = WebhookResp("deleted", cust, meta,
                              IF out.ok THEN 200 ELSE 400)
  /\ UNCHANGED <<items, defects, fixPaths>>
  /\ UNCHANGED sideVars

\* invoice.* and unhandled event types, a missing signature header, and a
\* signature that does not verify: nothing is written.
StripeOther(kind) ==
  /\ Idle
  /\ resp' = [NoResp EXCEPT !.op = "stripe", !.kind = kind,
                            !.status = IF kind \in {"nosig", "badsig"}
                                       THEN 400 ELSE 200]
  /\ UNCHANGED storeVars
  /\ UNCHANGED sideVars

(* ------------------- POST /device/identify ----------------------------- *)
\* What the vision model answers to the identification prompt: text
\* without a JSON object ("noJson"), a failed call ("error"), or a JSON
\* object whose fields are taken as they come.  confidence is whatever
\* number the model wrote: 9500 is an answer of 95.  ocr is the first text
\* of the OCR call that looks like a model number, or Null.
VisionAnswers ==
  { [kind |-> "error", brand |-> Null, model |-> Null, modelNumber |-> Null,
     category |-> Null, confidence |-> 0, ocr |-> Null],
    [kind |-> "noJson", brand |-> Null, model |-> Null, modelNumber |-> Null,
     category |-> Null, confidence |-> 0, ocr |-> "SN42"],
    [kind |-> "json", brand |-> "Acme", model |-> "X1", modelNumber |-> Null,
     category |-> "phone", confidence |-> 80, ocr |-> Null],
    [kind |-> "json", brand |-> "Acme", model |-> "X1", modelNumber |-> "MN1",
     category |-> "phone", confidence |-> 95, ocr |-> "SN42"],
    [kind |-> "json", brand |-> "Bolt", model |-> "X1", modelNumber |-> "MN1",
     category |-> "phone", confidence |-> 9500, ocr |-> Null] }

NoMatch == "nomatch"

\* searchDeviceDatabase: the catalog lookup is not implemented and returns
\* null for every query
searchDeviceDatabase(brand, model, modelNumber) == NoMatch

Max2(a, b) == IF a > b THEN a ELSE b

\* a parse failure that falls back to the identification by model number
identifyDeviceFromImage_mut(answer) ==
  IF answer.kind = "json"
  THEN [brand |-> answer.brand, model |-> answer.model,
        modelNumber |-> answer.modelNumber,
        category |-> answer.category, confidence |-> answer.confidence]
  ELSE [brand |-> "Unknown", model |-> "Unknown", modelNumber |-> Null,
        category |-> "electronics", confidence |-> 50]

\* identifyDeviceFromImage: the parsed answer, or the fallback when the
\* answer holds no JSON; a catalog match raises confidence to at least 0.9
identifyDeviceFromImage(answer) ==
  LET deviceInfo ==
        IF answer.kind = "json"
        THEN [brand |-> answer.brand, model |-> answer.model,
              modelNumber |-> answer.modelNumber,
              category |-> answer.category, confidence |-> answer.confidence]
        ELSE [brand |-> "Unknown", model |-> "Unidentified Device",
              modelNumber |-> Null, category |-> "electronics",
              confidence |-> 30]
      dbMatch == searchDeviceDatabase(deviceInfo.brand, deviceInfo.model,
                                      deviceInfo.modelNumber)
  IN IF dbMatch # NoMatch
     THEN [deviceInfo EXCEPT !.confidence = Max2(deviceInfo.confidence, 90)]
     ELSE deviceInfo

searchByModelNumber(modelNumber, brand) ==
  [brand |-> orElse(brand, "Unknown"), model |-> modelNumber,
   modelNumber |-> modelNumber, category |-> "electronics",
   confidence |-> 50]

\* hints that overwrite brand and category whatever the confidence
applyHints_mut(deviceInfo, brandHint, categoryHint) ==
  [deviceInfo EXCEPT
     !.brand = IF brandHint # "" THEN brandHint ELSE @,
     !.category = IF categoryHint # "" THEN categoryHint ELSE @]

\* the hints overwrite brand and category when confidence < 0.9
applyHints(deviceInfo, brandHint, categoryHint) ==
  [deviceInfo EXCEPT
     !.brand = IF brandHint # "" /\ deviceInfo.confidence < 90
               THEN brandHint ELSE @,
     !.category = IF categoryHint # "" /\ deviceInfo.confidence < 90
                  THEN categoryHint ELSE @]

\* deviceInfo as the handler hands it to db.item.create: the identification
\* from the image (with the model number the OCR found) or from the model
\* number, then the hints
identified(hasImage, answer, modelNumberHint, brandHint, categoryHint) ==
  LET fromImage == identifyDeviceFromImage(answer)
      withOcr == IF answer.ocr # Null /\ fromImage.modelNumber = Null
                 THEN [fromImage EXCEPT !.modelNumber = answer.ocr]
                 ELSE fromImage
      found == IF hasImage THEN withOcr
               ELSE searchByModelNumber(modelNumberHint, brandHint)
  IN applyHints(found, brandHint, categoryHint)

\* the external calls of a request with an image, in the order the handler
\* makes them: the vision model, the OCR, then the upload of the original
externalCalls(answer) ==
  IF answer.kind = "error" THEN <<"vision">>
  ELSE <<"vision", "ocr", "upload">>

\* hasImage: the form holds an image; answer: what the vision and OCR
\* calls return for it; the hints are "" when absent.
DeviceIdentify(c, lim, hasImage, answer, modelNumberHint, brandHint, categoryHint, storageOk) ==
  LET E(s) == [NoResp EXCEPT !.op = "deviceIdentify", !.caller = c,
                             !.status = s, !.limited = lim]
      deviceInfo == identified(hasImage, answer, modelNumberHint, brandHint,
                               categoryHint)
      calls == IF hasImage THEN externalCalls(answer) ELSE <<>>
      row == ItemRow(c, deviceInfo.category, deviceInfo.brand, deviceInfo.model,
                     deviceInfo.modelNumber, IF hasImage THEN 1 ELSE 0,
                     deviceInfo.confidence)
  IN
  /\ Idle
  /\ IF lim THEN
       /\ resp' = TooMany(E(429))
       /\ UNCHANGED items
     ELSE IF getCurrentUser(c) = NoUser THEN
       /\ resp' = E(401)
       /\ UNCHANGED items
     ELSE IF ~hasImage /\ modelNumberHint = "" THEN
       /\ resp' = [E(400) EXCEPT !.valid = FALSE]
       /\ UNCHANGED items
     ELSE IF hasImage /\ (answer.kind = "error" \/ ~storageOk) THEN
       /\ resp' = [E(500) EXCEPT !.calls = calls]
       /\ UNCHANGED items
     ELSE
       /\ Cardinality(DOMAIN items) < MaxItems
       /\ items' = (NextId(items) :> row) @@ items
       /\ resp' = [E(200) EXCEPT !.target = NextId(items),
                                 !.uploaded = row.photoUrls,
                                 !.item = ItemJson(NextId(items), row),
                                 !.calls = calls]
  /\ UNCHANGED <<users, subs, stripeLive, defects, fixPaths>>
  /\ UNCHANGED sideVars

(* ------------------- GET /device/search -------------------------------- *)
Lower(s) ==
  CASE s = "Acme" -> "acme"
    [] s = "Bolt" -> "bolt"
    [] s = "Unknown" -> "unknown"
    [] OTHER -> s

\* the filter that compares case-sensitively
brandContains_mut(brand, filter) == brand # Null /\ brand = filter

\* { contains: brand, mode: 'insensitive' }; the filters drawn are whole
\* brand names, which contain one another only when they are equal
brandContains(brand, filter) == brand # Null /\ Lower(brand) = Lower(filter)

DefaultLimit == 20
LimitCap == 100

\* Math.min(parseInt(searchParams.get('limit') || '20'), 100); the limit
\* parameter is absent (0) or a positive number
searchLimit(limitParam) ==
  LET n == IF limitParam = 0 THEN DefaultLimit ELSE limitParam
  IN IF n < LimitCap THEN n ELSE LimitCap

\* findMany({ where, orderBy: { createdAt: 'desc' }, take }): the ids of
\* the take newest rows among matching
takeNewest(matching, take) ==
  {id \in matching : Cardinality({j \in matching : j > id}) < take}

\* brand is the brand parameter ("" when absent); q and category are absent
DeviceSearch(c, lim, brand, limitParam) ==
  LET E(s) == [NoResp EXCEPT !.op = "deviceSearch", !.caller = c,
                             !.status = s, !.limited = lim]
      R(s) == [E(s) EXCEPT !.kind = brand, !.take = searchLimit(limitParam)]
      matching == {id \in DOMAIN items :
                     /\ items[id].userId = c
                     /\ brandContains(items[id].brand, brand)}
      userItems == takeNewest(matching, searchLimit(limitParam))
  IN
  /\ Idle
  /\ resp' = IF lim THEN TooMany(E(429))
             ELSE IF getCurrentUser(c) = NoUser THEN E(401)
             ELSE IF brand = "" THEN [R(400) EXCEPT !.valid = FALSE]
             ELSE [R(200) EXCEPT
                     !.results = {ItemJson(id, items[id]) : id \in userItems}]
  /\ UNCHANGED storeVars
  /\ UNCHANGED sideVars

BrandFilters == {"", "acme", "Bolt"}

DeviceNext ==
  \/ \E c \in Callers, hasImage, storageOk \in BOOLEAN,
        category \in {"", "phone"} :
       ItemIdentify(c, hasImage, storageOk, category)
  \* an image, with every answer of the vision model and every hint
  \/ \E c \in Callers, answer \in VisionAnswers,
        brandHint \in {"", "Bolt"}, categoryHint \in {"", "phone"} :
       DeviceIdentify(c, FALSE, TRUE, answer, "", brandHint, categoryHint, TRUE)
  \* no image: the model number hint decides
  \/ \E c \in Callers, answer \in VisionAnswers, modelNumberHint \in {"", "MN1"},
        brandHint \in {"", "Bolt"}, categoryHint \in {"", "phone"} :
       /\ answer.kind = "error"
       /\ DeviceIdentify(c, FALSE, FALSE, answer, modelNumberHint, brandHint,
                         categoryHint, TRUE)
  \* a request the limiter rejects, and an upload the object store refuses
  \/ \E c \in Callers, lim \in BOOLEAN, answer \in VisionAnswers :
       /\ answer.confidence = 95 \/ answer.kind = "noJson"
       /\ DeviceIdentify(c, lim, TRUE, answer, "", "", "", lim)
  \/ \E c \in Callers, lim \in BOOLEAN, brand \in BrandFilters,
        limitParam \in {0, 1} :
       DeviceSearch(c, lim, brand, limitParam)
  \/ Respond

(* ------------------- GET /tools/catalog -------------------------------- *)
\* TOOL_CATALOG: id -> category and the device categories it is essential for
ToolCatalog ==
  [id \in {"phillips-screwdriver-set", "spudger-set", "multimeter", "heat-gun",
           "torx-screwdriver-set", "soldering-iron", "ifixit-toolkit",
           "wire-strippers"} |->
    CASE id = "phillips-screwdriver-set" ->
           [category |-> "Hand Tools",
            essentialFor |-> {"electronics", "appliances", "furniture"}]
      [] id = "spudger-set" ->
           [category |-> "Specialty Tools",
            essentialFor |-> {"electronics", "smartphones", "tablets"}]
      [] id = "multimeter" ->
           [category |-> "Diagnostic Tools",
            essentialFor |-> {"electronics", "appliances", "automotive"}]
      [] id = "heat-gun" ->
           [category |-> "Power Tools",
            essentialFor |-> {"electronics", "automotive", "appliances"}]
      [] id = "torx-screwdriver-set" ->
           [category |-> "Hand Tools",
            essentialFor |-> {"electronics", "automotive", "appliances"}]
      [] id = "soldering-iron" ->
           [category |-> "Electronics Tools", essentialFor |-> {"electronics"}]
      [] id = "ifixit-toolkit" ->
           [category |-> "Specialty Toolkits",
            essentialFor |-> {"electronics", "smartphones", "laptops"}]
      [] id = "wire-strippers" ->
           [category |-> "Hand Tools",
            essentialFor |-> {"electronics", "automotive", "appliances"}]]

\* A number is a record: nan says it is NaN, value is in tenths of a degree.
\* NaN is what parseFloat makes of text that does not start with a number.
Num(v) == [nan |-> FALSE, value |-> v]
NaN == [nan |-> TRUE, value |-> 0]

\* parseFloat(searchParams.get(name) || '0'): "" is an absent parameter
parseCoordinate(param) ==
  CASE param = "" -> Num(0)
    [] param = "0" -> Num(0)
    [] param = "40" -> Num(400)
    [] OTHER -> NaN

\* the truthiness of a number: 0 and NaN are falsy
truthy(x) == ~x.nan /\ x.value # 0

\* the ToolLibrary rows the table may hold: stock is the set of catalog
\* tools whose name a tool of the library contains
LibraryPool ==
  { [id |-> "L1", latitude |-> 400, longitude |-> 400,
     stock |-> {"heat-gun"}],
    [id |-> "L2", latitude |-> 0, longitude |-> 400,
     stock |-> {"heat-gun", "multimeter"}],
    [id |-> "L3", latitude |-> 403, longitude |-> 397, stock |-> {}] }

\* latitude and longitude within half a degree
\* (a comparison with NaN is false)
nearbyLibraries(latitude, longitude) ==
  {lib \in toolLibrary :
     /\ ~latitude.nan /\ ~longitude.nan
     /\ lib.latitude >= latitude.value - 5
     /\ lib.latitude <= latitude.value + 5
     /\ lib.longitude >= longitude.value - 5
     /\ lib.longitude <= longitude.value + 5}

\* The table holds at most MaxLibraries rows, so take: 10 keeps them all.
\* A tool of the answer: annotated says whether it carries toolLibraries.
ToolsCatalog(c, lim, category, deviceCategory, latParam, lonParam) ==
  LET R(s) == [NoResp EXCEPT !.op = "toolsCatalog", !.caller = c,
                             !.status = s, !.limited = lim]
      latitude == parseCoordinate(latParam)
      longitude == parseCoordinate(lonParam)
      tools == {id \in DOMAIN ToolCatalog :
                  /\ category # "" => ToolCatalog[id].category = category
                  /\ deviceCategory # "" =>
                       deviceCategory \in ToolCatalog[id].essentialFor}
      plain == {[id |-> id, annotated |-> FALSE, toolLibraries |-> {}] :
                  id \in tools}
      annotated ==
        {[id |-> id, annotated |-> TRUE,
          toolLibraries |->
            {lib.id : lib \in {l \in nearbyLibraries(latitude, longitude) :
                                 id \in l.stock}}] : id \in tools}
  IN
  /\ Idle
  /\ resp' = IF lim THEN TooMany(R(429))
             ELSE IF getCurrentUser(c) = NoUser THEN R(401)
             ELSE [R(200) EXCEPT
                     !.args = <<category, deviceCategory, latParam, lonParam>>,
                     !.results = IF truthy(latitude) /\ truthy(longitude)
                                 THEN annotated ELSE plain]
  /\ UNCHANGED storeVars
  /\ UNCHANGED sideVars

CoordinateParams == {"", "0", "40", "north"}

CatalogNext ==
  \/ \E c \in Callers, lim \in BOOLEAN, category \in {"", "Hand Tools"},
        deviceCategory \in {"", "smartphones"},
        latParam, lonParam \in CoordinateParams :
       ToolsCatalog(c, lim, category, deviceCategory, latParam, lonParam)
  \/ Respond

(* ------------------- /security/pin and /security/2fa ------------------- *)
\* Each handler reads the User row once, in requireUser, and a handler that
\* writes does so later with db.user.update: the row may change in between.
\* A handler that writes is therefore two steps: the first runs up to the
\* update and leaves the request in inflight with the row it read, the
\* second is the update and the rest of the handler.

Pins == {"1234", "4321"}

\* /^\d{4,6}$/
validPin(pin) == pin \in Pins

\* lib/encryption: AES-256-GCM under the key of the environment
encrypt(plaintext) ==
  CASE plaintext = "1234" -> "c1f0" [] plaintext = "4321" -> "9be2"

decrypt(ciphertext) ==
  CASE ciphertext = "c1f0" -> "1234" [] ciphertext = "9be2" -> "4321"

\* Math.floor(100000 + Math.random() * 900000): the k-th code issued.
\* Two issued codes are taken to differ.
FirstCode == 100000
issuedCode(k) == FirstCode + k

\* /^\d{6}$/
validCode(code) == code >= 100000 /\ code <= 999999

Request(op, c, pin, code) ==
  [op |-> op, caller |-> c, pin |-> pin, code |-> code, user |-> metadata[c]]

\* PIN set, POST: up to db.user.update
PinSet(c, lim, pin, confirmPin) ==
  LET R(s) == [NoResp EXCEPT !.op = "pinSet", !.caller = c, !.status = s,
                             !.limited = lim]
      answer == IF lim THEN TooMany(R(429))
                ELSE IF getCurrentUser(c) = NoUser THEN R(401)
                ELSE IF ~validPin(pin) \/ ~validPin(confirmPin) THEN R(400)
                ELSE IF pin # confirmPin THEN R(400)
                ELSE NoResp
  IN
  /\ Idle
  /\ IF answer = NoResp
     THEN /\ BagCardinality(inflight) < MaxInflight
          /\ inflight' = inflight (+) SetToBag({Request("pinSet", c, pin, NoCode)})
          /\ UNCHANGED resp
     ELSE /\ resp' = answer
          /\ UNCHANGED inflight
  /\ UNCHANGED <<metadata, verified, toolLibrary>>
  /\ UNCHANGED storeVars
  /\ UNCHANGED <<limiter, tier, quotes, deal>>

\* PIN set, POST: db.user.update, auditLog, the answer.  auditLog is not
\* guarded: when it throws the outer catch answers 500.
PinSetWrite(r, auditFails) ==
  /\ Idle
  /\ r \in Pending("pinSet")
  /\ metadata' = [metadata EXCEPT ![r.caller] =
                    [r.user EXCEPT !.pinHash = encrypt(r.pin),
                                   !.pinEnabled = TRUE]]
  /\ inflight' = inflight (-) SetToBag({r})
  /\ resp' = [NoResp EXCEPT !.op = "pinSet", !.caller = r.caller,
                            !.status = IF auditFails THEN 500 ELSE 200,
                            !.args = <<r.pin, auditFails>>]
  /\ UNCHANGED <<verified, toolLibrary>>
  /\ UNCHANGED storeVars
  /\ UNCHANGED <<limiter, tier, quotes, deal>>

\* PIN verify, PUT: the status it answers.  auditLog is called on a match
\* and on a mismatch, inside the try whose catch answers 500.
pinVerify(c, lim, pin, auditFails) ==
  IF lim THEN 429
  ELSE IF getCurrentUser(c) = NoUser THEN 401
  ELSE IF ~validPin(pin) THEN 400
  ELSE IF ~metadata[c].pinEnabled \/ metadata[c].pinHash = Null THEN 400
  ELSE IF auditFails THEN 500
  ELSE IF decrypt(metadata[c].pinHash) = pin THEN 200
  ELSE 401

PinVerify(c, lim, pin, auditFails) ==
  LET R(s) == [NoResp EXCEPT !.op = "pinVerify", !.caller = c, !.status = s,
                             !.limited = lim, !.args = <<pin, auditFails>>]
      s == pinVerify(c, lim, pin, auditFails)
  IN
  /\ Idle
  /\ resp' = IF s = 429 THEN TooMany(R(s)) ELSE R(s)
  /\ UNCHANGED storeVars
  /\ UNCHANGED sideVars

\* 2FA enable, POST: up to db.user.update
TwoFactorEnable(c, lim) ==
  LET R(s) == [NoResp EXCEPT !.op = "twoFactorEnable", !.caller = c,
                             !.status = s, !.limited = lim]
      answer == IF lim THEN TooMany(R(429))
                ELSE IF getCurrentUser(c) = NoUser THEN R(401)
                ELSE NoResp
  IN
  /\ Idle
  /\ IF answer = NoResp
     THEN /\ BagCardinality(inflight) < MaxInflight
          /\ inflight' = inflight (+)
                           SetToBag({Request("twoFactorEnable", c, "", NoCode)})
          /\ UNCHANGED resp
     ELSE /\ resp' = answer
          /\ UNCHANGED inflight
  /\ UNCHANGED <<metadata, verified, toolLibrary>>
  /\ UNCHANGED storeVars
  /\ UNCHANGED <<limiter, tier, quotes, deal>>

\* 2FA enable, POST: the code, db.user.update, the answer
TwoFactorEnableWrite(r) ==
  LET code == issuedCode(Len(verified) + 1) IN
  /\ Idle
  /\ r \in Pending("twoFactorEnable")
  /\ Len(verified) < MaxCodes
  /\ metadata' = [metadata EXCEPT ![r.caller] =
                    [r.user EXCEPT !.twoFactorCode = code,
                                   !.twoFactorExpiresAt = "future"]]
  /\ verified' = Append(verified, 0)
  /\ inflight' = inflight (-) SetToBag({r})
  /\ resp' = [NoResp EXCEPT !.op = "twoFactorEnable", !.caller = r.caller,
                            !.status = 200, !.target = code]
  /\ UNCHANGED toolLibrary
  /\ UNCHANGED storeVars
  /\ UNCHANGED <<limiter, tier, quotes, deal>>

\* 2FA verify, PUT: up to db.user.update
TwoFactorVerify(c, lim, code) ==
  LET R(s) == [NoResp EXCEPT !.op = "twoFactorVerify", !.caller = c,
                             !.status = s, !.limited = lim, !.target = code]
      storedCode == metadata[c].twoFactorCode
      expiresAt == metadata[c].twoFactorExpiresAt
      answer == IF lim THEN TooMany(R(429))
                ELSE IF getCurrentUser(c) = NoUser THEN R(401)
                ELSE IF ~validCode(code) THEN R(400)
                ELSE IF storedCode = NoCode \/ expiresAt = Null THEN R(400)
                ELSE IF expiresAt = "past" THEN R(400)
                ELSE IF storedCode = code THEN NoResp
                ELSE R(401)
  IN
  /\ Idle
  /\ IF answer = NoResp
     THEN /\ BagCardinality(inflight) < MaxInflight
          /\ inflight' = inflight (+)
                           SetToBag({Request("twoFactorVerify", c, "", code)})
          /\ UNCHANGED resp
     ELSE /\ resp' = answer
          /\ UNCHANGED inflight
  /\ UNCHANGED <<metadata, verified, toolLibrary>>
  /\ UNCHANGED storeVars
  /\ UNCHANGED <<limiter, tier, quotes, deal>>

\* 2FA verify, PUT: db.user.update, logUserAction (which never throws), the
\* answer
TwoFactorVerifyWrite(r, auditFails) ==
  LET k == r.code - FirstCode IN
  /\ Idle
  /\ r \in Pending("twoFactorVerify")
  /\ metadata' = [metadata EXCEPT ![r.caller] =
                    [r.user EXCEPT !.twoFactorEnabled = TRUE,
                                   !.twoFactorCode = NoCode,
                                   !.twoFactorExpiresAt = Null]]
  /\ verified' = [verified EXCEPT ![k] = IF @ < 2 THEN @ + 1 ELSE @]
  /\ inflight' = inflight (-) SetToBag({r})
  /\ resp' = [NoResp EXCEPT !.op = "twoFactorVerify", !.caller = r.caller,
                            !.status = 200, !.target = r.code,
                            !.args = <<"", auditFails>>]
  /\ UNCHANGED toolLibrary
  /\ UNCHANGED storeVars
  /\ UNCHANGED <<limiter, tier, quotes, deal>>

\* ten minutes pass: the codes stored, and the rows read by the requests in
\* flight, are past their twoFactorExpiresAt
Expired(m) ==
  IF m.twoFactorExpiresAt = "future"
  THEN [m EXCEPT !.twoFactorExpiresAt = "past"] ELSE m

TimePasses ==
  /\ Idle
  /\ \E u \in Users : metadata[u].twoFactorExpiresAt = "future"
  /\ metadata' = [u \in Users |-> Expired(metadata[u])]
  /\ inflight' = LET rs == BagToSet(inflight)
                     old(r) == [r EXCEPT !.user = Expired(r.user)]
                 IN [x \in {old(r) : r \in rs} |->
                       LET same == {r \in rs : old(r) = x}
                           RECURSIVE sum(_)
                           sum(S) == IF S = {} THEN 0
                                     ELSE LET r == CHOOSE r \in S : TRUE
                                          IN inflight[r] + sum(S \ {r})
                       IN sum(same)]
  /\ UNCHANGED <<verified, toolLibrary, resp>>
  /\ UNCHANGED storeVars
  /\ UNCHANGED <<limiter, tier, quotes, deal>>

SecurityCallers == {"u1", NoUser}

SecurityNext ==
  \/ \E c \in SecurityCallers, lim \in BOOLEAN, pin \in {"1234"},
        confirmPin \in {"1234", "4321", "12"} :
       PinSet(c, lim, pin, confirmPin)
  \/ \E r \in BagToSet(inflight), auditFails \in BOOLEAN :
       PinSetWrite(r, auditFails)
  \/ \E pin \in {"1234", "4321", "12"}, auditFails \in BOOLEAN :
       PinVerify("u1", FALSE, pin, auditFails)
  \/ \E c \in SecurityCallers, lim \in BOOLEAN :
       (c = NoUser \/ lim) /\ PinVerify(c, lim, "1234", FALSE)
  \/ \E c \in SecurityCallers, lim \in BOOLEAN : TwoFactorEnable(c, lim)
  \/ \E r \in BagToSet(inflight) : TwoFactorEnableWrite(r)
  \/ \E code \in {issuedCode(k) : k \in 1..MaxCodes} \cup {999999, 12} :
       TwoFactorVerify("u1", FALSE, code)
  \/ \E c \in SecurityCallers, lim \in BOOLEAN :
       (c = NoUser \/ lim) /\ TwoFactorVerify(c, lim, issuedCode(1))
  \/ \E r \in BagToSet(inflight), auditFails \in BOOLEAN :
       TwoFactorVerifyWrite(r, auditFails)
  \/ TimePasses
  \/ Respond

(* ------------------- POST /webhooks/clerk ------------------------------ *)
\* the role a new account is given by one that starts as a subscriber
newUserRole_mut == "PRO"

\* db.user.create({ data: { ..., role: 'USER' } })
newUserRole == "USER"

ClerkKinds == {"user.created", "user.updated", "user.deleted", "badsig"}

\* A webhook of the auth provider about account u.  hasEmail: the event
\* names a primary e-mail address.  The store calls are not guarded: a
\* create of an existing clerkId and an update or delete of a missing row
\* throw, and the route answers 500.
ClerkWebhook(kind, u, hasEmail) ==
  LET R(s) == [NoResp EXCEPT !.op = "clerk", !.kind = kind, !.caller = u,
                             !.status = s, !.valid = hasEmail] IN
  /\ Idle
  /\ IF kind = "badsig" THEN
       /\ resp' = [R(400) EXCEPT !.caller = NoUser, !.valid = TRUE]
       /\ UNCHANGED users
     ELSE IF kind = "user.deleted" THEN
       IF users[u] = NoRole
       THEN resp' = [R(500) EXCEPT !.valid = TRUE] /\ UNCHANGED users
       ELSE /\ users' = [users EXCEPT ![u] = NoRole]
            /\ resp' = [R(200) EXCEPT !.valid = TRUE]
     ELSE IF ~hasEmail THEN
       /\ resp' = R(400)
       /\ UNCHANGED users
     ELSE IF kind = "user.created" THEN
       IF users[u] # NoRole
       THEN resp' = R(500) /\ UNCHANGED users
       ELSE /\ users' = [users EXCEPT ![u] = newUserRole]
            /\ resp' = R(200)
     ELSE
       /\ resp' = R(IF users[u] = NoRole THEN 500 ELSE 200)
       /\ UNCHANGED users
  /\ UNCHANGED <<subs, stripeLive, items, defects, fixPaths>>
  /\ UNCHANGED sideVars

StoreNext ==
  \/ \E c \in Callers, hasImage, storageOk \in BOOLEAN :
       ItemIdentify(c, hasImage, storageOk, "")
  \/ \E c \in Callers, lim, storageOk \in BOOLEAN,
        itemId \in ItemIds, symptoms \in SymptomKinds, photos \in 0 .. MaxPhotos :
       DefectReport(c, lim, itemId, symptoms, photos, storageOk)
  \/ \E c \in Callers, lim, dbFail \in BOOLEAN, d \in DefectIds \cup {NoId} :
       Recommend(c, lim, d, dbFail)
  \/ \E c \in Callers, lim \in BOOLEAN, id \in FixPathIds : GetFixPath(c, lim, id)
  \/ \E c \in Callers, lim \in BOOLEAN, id \in FixPathIds : GetRepairGuide(c, lim, id)
  \/ Respond

BillingNext ==
  \/ \E c \in Callers, lim, dbFail \in BOOLEAN : SubscriptionStatus(c, lim, dbFail)
  \/ \E c \in Callers, role \in Roles : CheckRole(c, role)
  \/ \E cust \in Users, hasMeta \in BOOLEAN, s \in StripeStatuses :
       StripeCreated(cust, hasMeta, s)
  \/ \E cust \in Users, s \in StripeStatuses : StripeUpdated(cust, s)
  \/ \E cust \in Users : StripeDeleted(cust)
  \/ \E kind \in {"invoice", "other", "nosig", "badsig"} : StripeOther(kind)
  \/ \E kind \in ClerkKinds, u \in Users, hasEmail \in BOOLEAN :
       ClerkWebhook(kind, u, hasEmail)
  \/ Respond

(* ------------------- lib/rate-limit.ts --------------------------------- *)
Tiers == {"anonymous", "authenticated", "pro", "upload", "auth"}

\* rateLimiters[tier].points
Points(t) ==
  CASE t = "anonymous" -> 10
    [] t = "authenticated" -> 100
    [] t = "pro" -> 500
    [] t = "upload" -> 5
    [] t = "auth" -> 5

\* rateLimiters[tier].duration, in seconds
Duration(t) ==
  CASE t = "anonymous" -> 60
    [] t = "authenticated" -> 60
    [] t = "pro" -> 60
    [] t = "upload" -> 300
    [] t = "auth" -> 900

\* A request as the limiter sees it: the x-clerk-user-id header, the
\* x-forwarded-for header and request.ip ("" when absent).
Requests ==
  [clerkUserId : {"", "a"}, forwarded : {"", "1.1.1.1,9.9.9.9"},
   ip : {"", "1.1.1.1"}]

\* forwarded.split(',')[0]
firstOf(forwarded) == IF forwarded = "1.1.1.1,9.9.9.9" THEN "1.1.1.1" ELSE forwarded

getClientIdentifier(request) ==
  IF request.clerkUserId # "" THEN <<"user", request.clerkUserId>>
  ELSE LET ip == IF request.forwarded # "" THEN firstOf(request.forwarded)
                 ELSE IF request.ip # "" THEN request.ip ELSE "unknown"
       IN <<"ip", ip>>

Keys == {getClientIdentifier(r) : r \in Requests}

\* points counted for the key in its current window (0 when the key has no
\* unexpired record)
Consumed(k) == IF k \in DOMAIN limiter THEN limiter[k].consumed ELSE 0

\* RateLimiterMemory storage after consume(key): the record of an unexpired
\* key is incremented and keeps its expiry, otherwise a new window starts
incrby(t, k) ==
  IF k \in DOMAIN limiter
  THEN [limiter EXCEPT ![k].consumed = @ + 1]
  ELSE (k :> [consumed |-> 1, ttl |-> Duration(t)]) @@ limiter

\* the outcome of limiter.consume(identifier): resolved with a
\* RateLimiterRes, or rejected with one when more than points were consumed.
\* The rejection value is a RateLimiterRes, which is not an Error.
consume(t, k) ==
  LET rec == incrby(t, k)[k]
      res == [remainingPoints |-> IF Points(t) - rec.consumed > 0
                                  THEN Points(t) - rec.consumed ELSE 0,
              msBeforeNext |-> rec.ttl, isError |-> FALSE]
  IN [resolved |-> rec.consumed <= Points(t), res |-> res]

rateLimit(request, t) ==
  LET out == consume(t, getClientIdentifier(request)) IN
  IF out.resolved
  THEN [success |-> TRUE, limit |-> Points(t),
        remaining |-> out.res.remainingPoints, reset |-> out.res.msBeforeNext]
  ELSE IF out.res.isError /\ "msBeforeNext" \in DOMAIN out.res
  THEN [success |-> FALSE, limit |-> Points(t), remaining |-> 0,
        reset |-> out.res.msBeforeNext]
  ELSE limitExceeded

\* A route's rate-limit preamble: the request is counted, and is answered
\* 429 with rateLimitHeaders(result) when the limiter does not admit it.
\* One key (tier.hot) may exhaust its quota; the others are explored up to
\* MaxOther requests per window.
RateLimited(request) ==
  LET k == getClientIdentifier(request)
      result == rateLimit(request, tier.name)
  IN
  /\ Idle
  /\ Consumed(k) < (IF k = tier.hot THEN Points(tier.name) + MaxOver ELSE MaxOther)
  /\ limiter' = incrby(tier.name, k)
  /\ resp' = [NoResp EXCEPT !.op = "rateLimit", !.key = k,
                !.status = IF result.success THEN 200 ELSE 429,
                !.limited = ~result.success,
                !.remaining = result.remaining,
                !.headers = IF result.success THEN {} ELSE rateLimitHeaders(result)]
  /\ UNCHANGED <<tier, quotes, deal>>
  /\ UNCHANGED auxVars
  /\ UNCHANGED storeVars

\* TickSec seconds pass; a record is removed when its window has elapsed
Tick ==
  /\ Idle
  /\ limiter # <<>>
  /\ limiter' = [k \in {x \in DOMAIN limiter : limiter[x].ttl > TickSec} |->
                   [limiter[k] EXCEPT !.ttl = @ - TickSec]]
  /\ UNCHANGED <<resp, tier, quotes, deal>>
  /\ UNCHANGED auxVars
  /\ UNCHANGED storeVars

InitRate ==
  /\ users = [u \in Users |-> "USER"]
  /\ subs = [u \in Users |-> NoSub]
  /\ stripeLive = [u \in Users |-> NoLive]
  /\ InitTables
  /\ limiter = <<>>
  /\ tier \in [name : Tiers, hot : Keys]
  /\ quotes = <<>>
  /\ deal = NoDeal
  /\ toolLibrary = {}
  /\ InitSecurity

RateNext ==
  \/ \E request \in Requests : RateLimited(request)
  \/ Tick
  \/ Respond

(* ------------------- parts/search: findBestDeal ------------------------ *)
Prices == {8, 10, 15}
Shippings == {0, 1, 6}
Sources == [price : Prices, shipping : Shippings]

\* the insertion that puts an element in front of its equals
RECURSIVE InsertDeal_mut(_, _)
InsertDeal_mut(d, sorted) ==
  IF sorted = <<>> THEN <<d>>
  ELSE IF Head(sorted).totalCost - d.totalCost < 0
       THEN <<Head(sorted)>> \o InsertDeal_mut(d, Tail(sorted))
       ELSE <<d>> \o sorted

\* deals.sort((a, b) => a.totalCost - b.totalCost): a stable sort, an
\* element goes behind every element that does not cost more
RECURSIVE InsertDeal(_, _)
InsertDeal(d, sorted) ==
  IF sorted = <<>> THEN <<d>>
  ELSE IF Head(sorted).totalCost - d.totalCost <= 0
       THEN <<Head(sorted)>> \o InsertDeal(d, Tail(sorted))
       ELSE <<d>> \o sorted

RECURSIVE SortDeals(_)
SortDeals(ds) ==
  IF ds = <<>> THEN <<>>
  ELSE InsertDeal(ds[Len(ds)], SortDeals(SubSeq(ds, 1, Len(ds) - 1)))

\* the reduction that measures savings against the second-cheapest quote
findBestDeal_mut(sources) ==
  LET deals == SortDeals([i \in 1 .. Len(sources) |->
                 [vendor |-> i,
                  totalCost |-> sources[i].price + sources[i].shipping,
                  savings |-> 0]])
      cheapest == deals[1]
      second == deals[IF Len(deals) > 1 THEN 2 ELSE 1]
  IN [cheapest EXCEPT !.savings = second.totalCost - cheapest.totalCost]

\* the vendor of a source is its position in the list
findBestDeal(sources) ==
  LET deals == SortDeals([i \in 1 .. Len(sources) |->
                 [vendor |-> i,
                  totalCost |-> sources[i].price + sources[i].shipping,
                  savings |-> 0]])
      cheapest == deals[1]
      mostExpensive == deals[Len(deals)]
  IN [cheapest EXCEPT !.savings = mostExpensive.totalCost - cheapest.totalCost]

BestDeal ==
  /\ deal = NoDeal
  /\ deal' = findBestDeal(quotes)
  /\ UNCHANGED <<resp, limiter, tier, quotes>>
  /\ UNCHANGED auxVars
  /\ UNCHANGED storeVars

InitDeal ==
  /\ users = [u \in Users |-> "USER"]
  /\ subs = [u \in Users |-> NoSub]
  /\ stripeLive = [u \in Users |-> NoLive]
  /\ InitTables
  /\ limiter = <<>>
  /\ tier = [name |-> "none", hot |-> ""]
  /\ quotes \in UNION {[1 .. n -> Sources] : n \in 1 .. MaxQuotes}
  /\ deal = NoDeal
  /\ toolLibrary = {}
  /\ InitSecurity

DealNext == BestDeal

(* Spec: the catalog store and its route handlers.                         *)
Next == StoreNext

Spec == Init /\ [][Next]_vars

(* SpecBilling: the payment webhooks and the entitlement checks.           *)
SpecBilling == InitBilling /\ [][BillingNext]_vars

(* SpecGate: the payment webhooks against the guide gate.  u1 has          *)
(* identified an Item and reported a Defect that has no FixPath yet.       *)
InitGate ==
  /\ users = [u \in Users |-> "USER"]
  /\ subs = [u \in Users |-> NoSub]
  /\ stripeLive = [u \in Users |-> NoLive]
  /\ items = (1 :> ItemRow("u1", "electronics", Null, Null, Null, 1, 50))
  /\ defects = (1 :> [itemId |-> 1, userId |-> "u1"])
  /\ fixPaths = <<>>
  /\ resp = NoResp
  /\ InitSide

GateNext ==
  \/ \E cust \in Users, hasMeta \in BOOLEAN, s \in StripeStatuses :
       StripeCreated(cust, hasMeta, s)
  \/ \E cust \in Users, s \in StripeStatuses : StripeUpdated(cust, s)
  \/ \E cust \in Users : StripeDeleted(cust)
  \/ \E c \in Callers, lim, dbFail \in BOOLEAN, d \in DefectIds \cup {NoId} :
       Recommend(c, lim, d, dbFail)
  \/ Respond

SpecGate == InitGate /\ [][GateNext]_vars

(* SpecGuides: concurrent recommend requests over a FixPath table that may *)
(* hold curated guides.  u1 is a subscriber and has reported Defect 1.     *)
\* a guide put into the table by curation (no route creates one)
officialFixPath(defectId, score) ==
  [defectId |-> defectId, userId |-> "u1", sourceType |-> "OFFICIAL",
   provenanceScore |-> score]

GuidePool ==
  {aiFixPath("u1", 1), officialFixPath(1, 7), officialFixPath(1, 9)}

InitGuides ==
  /\ users = [u \in Users |-> IF u = "u1" THEN "PRO" ELSE "USER"]
  /\ subs = [u \in Users |-> IF u = "u1" THEN "ACTIVE" ELSE NoSub]
  /\ stripeLive = [u \in Users |-> IF u = "u1" THEN u ELSE NoLive]
  /\ items = (1 :> ItemRow("u1", "electronics", Null, Null, Null, 1, 50))
  /\ defects = (1 :> [itemId |-> 1, userId |-> "u1"])
  /\ \E n \in 0..MaxFixPaths :
       /\ fixPaths \in [1..n -> GuidePool]
       /\ \A i, j \in 1..n : i # j => fixPaths[i] # fixPaths[j]
  /\ resp = NoResp
  /\ InitSide

GuidesNext ==
  \/ \E c \in Callers, lim, dbFail \in BOOLEAN, d \in DefectIds \cup {NoId} :
       RecommendLookup(c, lim, d, dbFail)
  \/ \E r \in BagToSet(inflight) : RecommendCreate(r)
  \/ Respond

SpecGuides == InitGuides /\ [][GuidesNext]_vars

(* SpecDevice: device identification and the search over the caller's      *)
(* Items, from an empty Item table.                                        *)
InitDevice ==
  /\ users = [u \in Users |-> "USER"]
  /\ subs = [u \in Users |-> NoSub]
  /\ stripeLive = [u \in Users |-> NoLive]
  /\ InitTables
  /\ InitSide

SpecDevice == InitDevice /\ [][DeviceNext]_vars

(* SpecCatalog: the tool catalog over every small ToolLibrary table (no    *)
(* route writes the table).                                                *)
InitCatalog ==
  /\ users = [u \in Users |-> "USER"]
  /\ subs = [u \in Users |-> NoSub]
  /\ stripeLive = [u \in Users |-> NoLive]
  /\ InitTables
  /\ limiter = <<>>
  /\ tier = [name |-> "none", hot |-> ""]
  /\ quotes = <<>>
  /\ deal = NoDeal
  /\ toolLibrary \in {S \in SUBSET LibraryPool : Cardinality(S) <= MaxLibraries}
  /\ InitSecurity

SpecCatalog == InitCatalog /\ [][CatalogNext]_vars

(* SpecSecurity: the PIN and 2FA endpoints, with requests in flight.       *)
InitAccounts ==
  /\ users = [u \in Users |-> "USER"]
  /\ subs = [u \in Users |-> NoSub]
  /\ stripeLive = [u \in Users |-> NoLive]
  /\ InitTables
  /\ InitSide

SpecSecurity == InitAccounts /\ [][SecurityNext]_vars

(* SpecRate: the rate limiter.                                             *)
SpecRate == InitRate /\ [][RateNext]_vars

(* SpecDeal: the best-deal reduction over every short list of quotes.      *)
SpecDeal == InitDeal /\ [][DealNext]_vars

(* ======================= properties ==================================== *)
Entitling == {"ACTIVE", "TRIALING"}

(* C1: every stored Defect carries the userId of the Item it names; a      *)
(* report creates a Defect only with status 200 and only against an Item   *)
(* the caller owns, and an admitted, authenticated, well-formed report     *)
(* against a missing or foreign Item is answered 404 and creates nothing.  *)
C1_DefectOwnership ==
  /\ [](\A d \in DOMAIN defects :
          /\ defects[d].itemId \in DOMAIN items
          /\ defects[d].userId = items[defects[d].itemId].userId)
  /\ [][resp'.op = "report" =>
          /\ (defects' # defects \/ resp'.status = 200) =>
               /\ resp'.status = 200
               /\ resp'.target \in DOMAIN items
               /\ items[resp'.target].userId = resp'.caller
               /\ DOMAIN defects' = DOMAIN defects \cup {NextId(defects)}
               /\ defects'[NextId(defects)] =
                    [itemId |-> resp'.target, userId |-> resp'.caller]
          /\ ( /\ ~resp'.limited
               /\ resp'.caller \in Users
               /\ resp'.valid
               /\ (resp'.target \notin DOMAIN items
                     \/ items[resp'.target].userId # resp'.caller) ) =>
               (resp'.status = 404 /\ defects' = defects)
      ]_vars

\* a report against another user's Item was answered 404 while a Defect of
\* that Item's owner is stored
C1_Witness ==
  /\ resp.op = "report"
  /\ resp.status = 404
  /\ resp.target \in DOMAIN items
  /\ \E d \in DOMAIN defects : defects[d].itemId = resp.target

(* C2: on GET /fixpath/{id}, GET /repair/guide/{id} and POST               *)
(* /fixpath/recommend a FixPath is returned only to the user who owns the  *)
(* Defect it belongs to.                                                   *)
C2_FixPathOnlyToOwner ==
  resp.op \in {"getFixPath", "getGuide", "recommend"} =>
    /\ \A f \in resp.ids :
         /\ f \in DOMAIN fixPaths
         /\ defects[fixPaths[f].defectId].userId = resp.caller
    /\ (resp.op # "recommend" /\ resp.target \in DOMAIN fixPaths
          /\ defects[fixPaths[resp.target].defectId].userId # resp.caller) =>
         (resp.ids = {} /\ resp.status # 200)

\* a user asked for another user's FixPath and was refused
C2_Witness ==
  /\ resp.op \in {"getFixPath", "getGuide"}
  /\ resp.caller \in Users
  /\ ~resp.limited
  /\ resp.target \in DOMAIN fixPaths
  /\ defects[fixPaths[resp.target].defectId].userId # resp.caller
  /\ resp.ids = {}

(* C3: a recommend call by the owner of a Defect, admitted and answered    *)
(* 200 or 403, followed directly by a second admitted call of the same     *)
(* caller for the same Defect with the same entitlement (subscription      *)
(* record and lookup outcome): the second call returns the FixPath ids of  *)
(* the first, with the same status, and creates no FixPath.                *)
C3_RecommendIdempotent ==
  (resp.op = "recommend" /\ resp.status \in {200, 403}) =>
    \A dbFail \in BOOLEAN :
      (getUserSubscription(resp.caller, resp.dbFail)
         = getUserSubscription(resp.caller, dbFail)) =>
        LET second == recommend(resp.caller, FALSE, resp.target, dbFail) IN
        /\ second.resp.ids = resp.ids
        /\ second.resp.status = resp.status
        /\ second.fixPaths = fixPaths

\* a recommend call was answered from the stored guides although this
\* call's subscription lookup failed: the guide is one an earlier call made
C3_Witness ==
  /\ resp.op = "recommend"
  /\ resp.status = 200
  /\ resp.dbFail
  /\ resp.ids # {}

(* C4: a recommend call by the owner of a Defect without FixPaths, the     *)
(* caller holding no ACTIVE or TRIALING subscription, is answered 403 with *)
(* upgradeUrl and creates no FixPath.                                      *)
C4_NonProRefused ==
  [][( /\ resp'.op = "recommend"
       /\ ~resp'.limited
       /\ resp'.caller \in Users
       /\ resp'.target \in DOMAIN defects
       /\ defects[resp'.target].userId = resp'.caller
       /\ FixPathsOf(resp'.target) = {}
       /\ subs[resp'.caller] \notin Entitling ) =>
       ( /\ resp'.status = 403
         /\ resp'.upgradeUrl
         /\ fixPaths' = fixPaths )
  ]_vars

\* a former subscriber asked for a guide for their own Defect and was
\* refused with the upgrade hint
C4_Witness ==
  /\ resp.op = "recommend"
  /\ resp.status = 403
  /\ resp.upgradeUrl
  /\ ~resp.dbFail
  /\ subs[resp.caller] = "CANCELED"
  /\ FixPathsOf(resp.target) = {}

(* C5: entitlement monotonicity over hasRole(r) and the PRO gate of        *)
(* POST /fixpath/recommend: an ADMIN passes every check a PRO passes, and  *)
(* a USER fails every check that requires PRO or ADMIN.                    *)
Checks == {"USER", "PRO", "ADMIN", "gate"}

Passes(u, chk) ==
  IF chk = "gate" THEN checkSubscriptionAccess(u, FALSE) ELSE hasRole(u, chk)

C5_EntitlementMonotone ==
  /\ \A a, p \in Users :
       (users[a] = "ADMIN" /\ users[p] = "PRO") =>
         \A chk \in Checks : Passes(p, chk) => Passes(a, chk)
  /\ \A u \in Users :
       users[u] = "USER" =>
         \A chk \in {"PRO", "ADMIN", "gate"} : ~Passes(u, chk)

(* C6: once a subscription-created event carrying the id of an existing    *)
(* user has been handled the user's role is PRO, and once a                *)
(* subscription-deleted event carrying that id has been handled the role   *)
(* is USER.                                                                *)
C6_WebhookSetsRole ==
  (resp.op = "stripe" /\ resp.caller \in Users /\ users[resp.caller] # NoRole) =>
    /\ resp.kind = "created" => users[resp.caller] = "PRO"
    /\ resp.kind = "deleted" => users[resp.caller] = "USER"

(* C7: getUserSubscription / checkSubscriptionAccess report a caller as    *)
(* entitled exactly when the lookup succeeds and finds a Subscription      *)
(* whose stored status is ACTIVE or TRIALING.                              *)
C7_ActiveIffEntitling ==
  /\ \A u \in Users, fails \in BOOLEAN :
       /\ getUserSubscription(u, fails) <=> (~fails /\ subs[u] \in Entitling)
       /\ checkSubscriptionAccess(u, fails) <=> (~fails /\ subs[u] \in Entitling)
  /\ (resp.op = "subStatus" /\ resp.status = 200) =>
       (resp.active <=> (~resp.dbFail /\ subs[resp.caller] \in Entitling))

\* GET /subscription/status reported a trialing subscriber as active
C7_Witness ==
  /\ resp.op = "subStatus"
  /\ resp.status = 200
  /\ resp.active
  /\ subs[resp.caller] = "TRIALING"

(* C8: a request is admitted exactly when fewer than N requests of its key *)
(* were counted in the key's current window; a request that is not         *)
(* admitted is answered 429 with remaining 0; requests of a key leave the  *)
(* counts of every other key alone.                                        *)
C8_RateLimitWindow ==
  [][resp'.op = "rateLimit" =>
       /\ (resp'.status = 200) <=> (Consumed(resp'.key) < Points(tier.name))
       /\ resp'.status # 200 => (resp'.status = 429 /\ resp'.remaining = 0)
       /\ \A k \in Keys \ {resp'.key} :
            (k \in DOMAIN limiter') = (k \in DOMAIN limiter)
              /\ (k \in DOMAIN limiter => limiter'[k] = limiter[k])
  ]_vars

(* C9: for a non-empty list of quotes findBestDeal returns the first       *)
(* vendor of minimal total (price + shipping), that total as totalCost,    *)
(* and savings = maximal total - minimal total, which is >= 0.             *)
Total(i) == quotes[i].price + quotes[i].shipping

C9_BestDealIsMinimum ==
  deal # NoDeal =>
    /\ deal.vendor \in 1 .. Len(quotes)
    /\ deal.totalCost = Total(deal.vendor)
    /\ \A i \in 1 .. Len(quotes) : deal.totalCost <= Total(i)
    /\ \A i \in 1 .. Len(quotes) : Total(i) = deal.totalCost => deal.vendor <= i
    /\ \E i \in 1 .. Len(quotes) :
         /\ \A j \in 1 .. Len(quotes) : Total(j) <= Total(i)
         /\ deal.savings = Total(i) - deal.totalCost
    /\ deal.savings >= 0

\* a best deal was computed for a list whose minimal total is shared by two
\* different quotes, the second of which is not the last
C9_Witness ==
  /\ deal # NoDeal
  /\ Len(quotes) = 3
  /\ Total(1) > Total(2)
  /\ Total(2) = Total(3)
  /\ quotes[2] # quotes[3]
  /\ deal.vendor = 2

(* C10: the quotes [(10,0),(8,6),(15,1)].                                  *)
SpecQuotes ==
  <<[price |-> 10, shipping |-> 0], [price |-> 8, shipping |-> 6],
    [price |-> 15, shipping |-> 1]>>

\* as stated: the (8,6) vendor with total 14 and savings 2
C10_AsStated ==
  (quotes = SpecQuotes /\ deal # NoDeal) =>
    (deal.vendor = 2 /\ deal.totalCost = 14 /\ deal.savings = 2)

\* as amended: the (10,0) vendor with total 10 and savings 16 - 10 = 6
C10_SpecQuotesBestDeal ==
  (quotes = SpecQuotes /\ deal # NoDeal) =>
    (deal.vendor = 1 /\ deal.totalCost = 10 /\ deal.savings = 6)

C10_Witness == quotes = SpecQuotes /\ deal # NoDeal

(* C15: when the audit call of a PIN set, PIN verify or 2FA verify request  *)
(* fails, the request is answered with the status it is answered with when *)
(* the audit call succeeds.                                                *)
C15_AuditFailureHarmless ==
  (/\ resp.op \in {"pinSet", "pinVerify", "twoFactorVerify"}
   /\ Len(resp.args) = 2
   /\ resp.args[2]) =>
    resp.status = IF resp.op = "pinVerify"
                  THEN pinVerify(resp.caller, resp.limited, resp.args[1], FALSE)
                  ELSE 200

(* C17: every tool of a GET /tools/catalog answer to a request that        *)
(* supplies a numeric latitude and a numeric longitude (0 included)        *)
(* carries the toolLibraries annotation, which lists the nearby libraries  *)
(* that stock the tool; the annotation is absent only when a coordinate is *)
(* not supplied.                                                           *)
Numeric(param) == param \in {"0", "40"}

C17_AnnotatedWhenCoordinates ==
  (resp.op = "toolsCatalog" /\ resp.status = 200) =>
    LET latParam == resp.args[3]
        lonParam == resp.args[4]
    IN \A t \in resp.results :
         /\ (Numeric(latParam) /\ Numeric(lonParam)) =>
              /\ t.annotated
              /\ t.toolLibraries =
                   {lib.id : lib \in
                      {l \in nearbyLibraries(parseCoordinate(latParam),
                                             parseCoordinate(lonParam)) :
                         t.id \in l.stock}}
         /\ t.annotated => (latParam # "" /\ lonParam # "")

(* C18: whether POST /fixpath/recommend synthesizes a guide for the        *)
(* caller's Defect without FixPaths is decided by the Subscription found   *)
(* at request time alone: the guide is made exactly when the lookup        *)
(* succeeds and the status is ACTIVE or TRIALING, whatever User.role is;   *)
(* otherwise the call is refused with 403 and nothing is created.          *)
C18_GateReadsSubscription ==
  [][( /\ resp'.op = "recommend"
       /\ ~resp'.limited
       /\ resp'.caller \in Users
       /\ resp'.target \in DOMAIN defects
       /\ defects[resp'.target].userId = resp'.caller
       /\ FixPathsOf(resp'.target) = {} ) =>
       IF ~resp'.dbFail /\ subs[resp'.caller] \in Entitling
       THEN /\ resp'.status = 200
            /\ DOMAIN fixPaths' = DOMAIN fixPaths \cup resp'.ids
            /\ resp'.ids # {}
       ELSE /\ resp'.status = 403
            /\ fixPaths' = fixPaths
  ]_vars

\* a caller whose role is still PRO while the Subscription is no longer
\* ACTIVE or TRIALING was refused
C18_Witness ==
  /\ resp.op = "recommend"
  /\ resp.status = 403
  /\ ~resp.dbFail
  /\ users[resp.caller] = "PRO"
  /\ subs[resp.caller] \in {"PAST_DUE", "CANCELED"}

(* C19: the role of an existing user changes only in the                   *)
(* subscription-created handler (to PRO) and the subscription-deleted      *)
(* handler (to USER), for the user the event names; every other operation  *)
(* leaves every role as it is, and an account created by the auth          *)
(* provider's user.created event starts with role USER.                    *)
C19_RoleFrame ==
  [][\A u \in Users :
       users'[u] # users[u] =>
         IF users[u] = NoRole
           THEN resp'.op = "clerk" /\ resp'.kind = "user.created"
                  /\ users'[u] = "USER"
         ELSE IF users'[u] = NoRole
           THEN resp'.op = "clerk" /\ resp'.kind = "user.deleted"
         ELSE /\ resp'.op = "stripe"
              /\ resp'.caller = u
              /\ \/ resp'.kind = "created" /\ users'[u] = "PRO"
                 \/ resp'.kind = "deleted" /\ users'[u] = "USER"
  ]_vars

\* a subscription-updated event made the Subscription ACTIVE and left the
\* user's role USER
C19_Witness ==
  /\ resp.op = "stripe"
  /\ resp.kind = "updated"
  /\ resp.status = 200
  /\ resp.caller \in Users
  /\ users[resp.caller] = "USER"
  /\ subs[resp.caller] = "ACTIVE"

(* C11: every stored Item has a confidence between 0.0 and 1.0, and an     *)
(* identification the device catalog matched has confidence >= 0.9.        *)
C11_ConfidenceInRange ==
  /\ \A id \in DOMAIN items :
       items[id].confidence >= 0 /\ items[id].confidence <= 100
  /\ \A answer \in VisionAnswers :
       LET info == identifyDeviceFromImage(answer) IN
       searchDeviceDatabase(info.brand, info.model, info.modelNumber) # NoMatch
         => info.confidence >= 90

(* C12: the round trip identify -> search.                                 *)
OwnMatches(c, filter) ==
  {id \in DOMAIN items :
     /\ items[id].userId = c
     /\ items[id].brand # Null
     /\ Lower(items[id].brand) = Lower(filter)}

\* as stated: every Item of the caller whose brand the filter matches is
\* in the result set of a successful search, with the values identify
\* returned
C12_AsStated ==
  (resp.op = "deviceSearch" /\ resp.status = 200) =>
    \A id \in OwnMatches(resp.caller, resp.kind) :
      ItemJson(id, items[id]) \in resp.results

\* as amended: a successful POST /device/identify returns the values of
\* the row it stored; rows are never changed afterwards; and a successful
\* search with a brand filter lists, with those values, every matching Item
\* of the caller that has fewer than `take` newer matching Items of the
\* caller, and nothing else
C12_RoundTripWithinLimit ==
  /\ []((resp.op = "deviceIdentify" /\ resp.status = 200) =>
          /\ resp.target \in DOMAIN items
          /\ items[resp.target].userId = resp.caller
          /\ resp.item = ItemJson(resp.target, items[resp.target]))
  /\ [][\A id \in DOMAIN items :
          id \in DOMAIN items' /\ items'[id] = items[id]]_vars
  /\ []((resp.op = "deviceSearch" /\ resp.status = 200) =>
          LET own == OwnMatches(resp.caller, resp.kind) IN
          /\ \A id \in own :
               Cardinality({j \in own : j > id}) < resp.take =>
                 ItemJson(id, items[id]) \in resp.results
          /\ \A r \in resp.results :
               r.id \in own /\ r = ItemJson(r.id, items[r.id]))

\* a search for "acme" limited to one row listed the newer of the caller's
\* two Acme Items, as identify had stored it
C12_Witness ==
  /\ resp.op = "deviceSearch"
  /\ resp.status = 200
  /\ resp.kind = "acme"
  /\ resp.take = 1
  /\ Cardinality(OwnMatches(resp.caller, "acme")) = 2
  /\ \E r \in resp.results : r.brand = "Acme" /\ r.id = 2

(* C13: on the id-addressed endpoints (report by itemId, recommend by      *)
(* defectId, GET /fixpath/{id}, GET /repair/guide/{id}) an admitted,       *)
(* authenticated, well-formed request for an id that does not resolve and  *)
(* one for an id that resolves to another user's resource are both         *)
(* answered 404.                                                           *)
Resolves(op, id) ==
  CASE op = "report" -> id \in DOMAIN items
    [] op = "recommend" -> id \in DOMAIN defects
    [] OTHER -> id \in DOMAIN fixPaths

OwnerOf(op, id) ==
  CASE op = "report" -> items[id].userId
    [] op = "recommend" -> defects[id].userId
    [] OTHER -> defects[fixPaths[id].defectId].userId

C13_NotFoundConflated ==
  ( /\ resp.op \in {"report", "recommend", "getFixPath", "getGuide"}
    /\ ~resp.limited
    /\ resp.caller \in Users
    /\ resp.valid
    /\ (~Resolves(resp.op, resp.target)
          \/ OwnerOf(resp.op, resp.target) # resp.caller) ) =>
    resp.status = 404

(* C14: every response of an authenticated, non-webhook route carries the  *)
(* X-RateLimit-Limit, X-RateLimit-Remaining and X-RateLimit-Reset headers. *)
C14_HeadersOnEveryResponse ==
  resp.op \in {"itemIdentify", "report", "recommend", "getFixPath",
               "getGuide"} =>
    RateLimitHeaderNames \subseteq resp.headers

(* C16: an admitted, authenticated POST /defect/report whose body does not *)
(* satisfy DefectReportSchema (a symptoms field that is not well-formed    *)
(* JSON included) is answered 400, creates no Defect and uploads no photo. *)
C16_MalformedReportIs400 ==
  [][( /\ resp'.op = "report"
       /\ ~resp'.limited
       /\ resp'.caller \in Users
       /\ ~resp'.valid ) =>
       ( /\ resp'.status = 400
         /\ defects' = defects
         /\ resp'.uploaded = 0 )
  ]_vars
(* C20: at most one verify request succeeds with each 2FA code issued.     *)
C20_SingleUse ==
  \A k \in DOMAIN verified : verified[k] <= 1

(* C30: a PIN-set write leaves the 2FA fields of every user as they are    *)
(* stored, and a 2FA-enable or 2FA-verify write leaves the PIN fields as   *)
(* they are stored.                                                        *)
PinFields(m) == <<m.pinHash, m.pinEnabled>>
TwoFactorFields(m) ==
  <<m.twoFactorCode, m.twoFactorExpiresAt, m.twoFactorEnabled>>

C30_WritesKeepOtherFields ==
  [][ \A u \in Users :
        /\ resp'.op = "pinSet" =>
             TwoFactorFields(metadata'[u]) = TwoFactorFields(metadata[u])
        /\ resp'.op \in {"twoFactorEnable", "twoFactorVerify"} =>
             PinFields(metadata'[u]) = PinFields(metadata[u])
    ]_vars

(* C21: at most one AI_GENERATED FixPath is stored for a Defect.           *)
C21_OneGuidePerDefect ==
  \A d \in DefectIds :
    Cardinality({f \in FixPathsOf(d) :
                   fixPaths[f].sourceType = "AI_GENERATED"}) <= 1

(* C23: in the list a recommend call returns, an AI_GENERATED guide comes  *)
(* after every OFFICIAL guide whose provenance score is equal to or higher *)
(* than its own.                                                           *)
C23_OfficialBeforeAi ==
  (resp.op = "recommend" /\ resp.status = 200) =>
    \A i, j \in DOMAIN resp.order :
      (/\ fixPaths[resp.order[i]].sourceType = "AI_GENERATED"
       /\ fixPaths[resp.order[j]].sourceType = "OFFICIAL"
       /\ fixPaths[resp.order[j]].provenanceScore
            >= fixPaths[resp.order[i]].provenanceScore) => j < i

(* C22: when no payment webhook is being handled, the role of every user   *)
(* that is not an ADMIN is PRO exactly when the user's Subscription is     *)
(* ACTIVE or TRIALING.                                                     *)
C22_RoleFollowsSubscription ==
  Idle =>
    \A u \in Users :
      users[u] \in {"USER", "PRO"} =>
        (users[u] = "PRO" <=> subs[u] \in Entitling)

(* C27: a subscription-created event that the webhook answers with 400     *)
(* has stored no Subscription and changed no role.                         *)
C27_CreatedAllOrNothing ==
  [][ (resp'.op = "stripe" /\ resp'.kind = "created" /\ resp'.status = 400)
        => (subs' = subs /\ users' = users) ]_vars

(* C28: a subscription-updated event with processor status s stores the    *)
(* status a subscription-created event stores for s, and neither event     *)
(* stores ACTIVE or TRIALING for a status other than active and trialing.  *)
C28_SameStatusMirror ==
  [][ \A cust \in Users, s \in StripeStatuses :
        /\ (StripeUpdated(cust, s) /\ resp'.status = 200) =>
             subs'[cust] = createdStatus(s)
        /\ (/\ s \notin {"active", "trialing"}
            /\ \/ StripeUpdated(cust, s)
               \/ \E hasMeta \in BOOLEAN : StripeCreated(cust, hasMeta, s)
            /\ resp'.status = 200
            /\ subs'[cust] # subs[cust]) =>
             subs'[cust] \notin Entitling
    ]_vars

(* C29: a subscription-created, -updated or -deleted event handled a       *)
(* second time directly after the first leaves every role and every        *)
(* Subscription as the first handling left them.                           *)
C29_RedeliveryIdempotent ==
  [][ \A cust \in Users, s \in StripeStatuses :
        /\ \A hasMeta \in BOOLEAN :
             StripeCreated(cust, hasMeta, s) =>
               LET again == handleSubscriptionCreated(
                              users', subs', cust,
                              IF hasMeta THEN cust ELSE NoUser, s)
               IN again.users = users' /\ again.subs = subs'
        /\ StripeUpdated(cust, s) =>
             LET again == handleSubscriptionUpdated(users', subs', cust, s)
             IN again.users = users' /\ again.subs = subs'
        /\ StripeDeleted(cust) =>
             LET again == handleSubscriptionDeleted(users', subs', cust,
                                                    stripeLive[cust])
             IN again.users = users' /\ again.subs = subs'
    ]_vars

\* a subscription-updated event with a status that is not active was
\* handled for a subscription stored as ACTIVE or TRIALING before, and a
\* second handling finds the Subscription the first one wrote
C29_Witness ==
  /\ resp.op = "stripe"
  /\ resp.kind = "updated"
  /\ resp.status = 200
  /\ \E cust \in Users :
       /\ resp.target = (IF cust = "u1" THEN 1 ELSE 2)
       /\ subs[cust] \in {"PAST_DUE", "CANCELED"}
       /\ users[cust] = "PRO"

C25_HintsBelowThreshold ==
  [][ (resp'.op = "deviceIdentify" /\ resp'.status = 200) =>
        \A hasImage \in BOOLEAN, answer \in VisionAnswers,
           modelNumberHint \in {"", "MN1"}, brandHint \in {"", "Bolt"},
           categoryHint \in {"", "phone"} :
          DeviceIdentify(resp'.caller, FALSE, hasImage, answer,
                         modelNumberHint, brandHint, categoryHint, TRUE) =>
            LET plain == identified(hasImage, answer, modelNumberHint, "", "")
                item == items'[resp'.target]
            IN /\ item.brand = IF brandHint # "" /\ plain.confidence < 90
                               THEN brandHint ELSE plain.brand
               /\ item.category = IF categoryHint # "" /\ plain.confidence < 90
                                  THEN categoryHint ELSE plain.category
               /\ item.model = plain.model
               /\ item.modelNumber = plain.modelNumber
               /\ item.confidence = plain.confidence
    ]_vars

\* the brand hint Bolt replaced the brand Acme of an identification of
\* confidence 0.8, whose model was kept
C25_Witness ==
  /\ resp.op = "deviceIdentify"
  /\ resp.status = 200
  /\ resp.item.brand = "Bolt"
  /\ resp.item.model = "X1"
  /\ resp.item.confidence = 80

(* C26: in every POST /device/identify request the upload of the original  *)
(* image comes before the call to the vision model, and a request that     *)
(* fails at the vision call has stored its photo.                          *)
C26_UploadBeforeVision ==
  resp.op = "deviceIdentify" =>
    /\ \A i \in DOMAIN resp.calls :
         resp.calls[i] = "vision" =>
           \E j \in DOMAIN resp.calls : j < i /\ resp.calls[j] = "upload"
    /\ (resp.status = 500 /\ resp.calls = <<"vision">>) => resp.uploaded >= 1

====
